---------------------------- MODULE Spec2Model ----------------------------
(***************************************************************************)
(* Model of streamlit_journal_app.py: a journal kept in one CSV file       *)
(* (journal_entries.csv).  Every script run loads the whole table, a       *)
(* button handler transforms it in memory and save_data writes the whole   *)
(* table back.  Two browser sessions run the same script against the same  *)
(* file; nothing in the source synchronises them.                          *)
(*                                                                         *)
(* Values.  A cell of a DataFrame is a record [t, s, n]:                   *)
(*   t = "str"    a Python str whose text is s                             *)
(*   t = "strlit" a Python str whose text is the literal of kind s, n      *)
(*   t = "int"    an integer n                                             *)
(*   t = "float"  a float, n in tenths                                     *)
(*   t = "ts"     a Timestamp, n seconds after the first minute modelled   *)
(*   t = "nan"    NaN / NaT                                                *)
(*   t = "none"   Python None (only as a widget default)                   *)
(* A cell of the CSV text has the same shape, t being its lexical class:   *)
(* "empty", "word", "int", "float" or "ts".                                *)
(* Option strings are written without the emoji prefix of the source.      *)
(***************************************************************************)
EXTENDS Integers, Sequences, FiniteSets, TLC

VARIABLES file, pc, df, op, sel, out, before

vars == <<file, pc, df, op, sel, out, before>>

----------------------------------------------------------------------------
(* Bounds *)

\* entries can be dated in the minutes 0 .. MaxMinutes-1
MaxMinutes == 2

\* "Save Entry" is modelled while the table has fewer than MaxRows rows
MaxRows == 2

Sessions == {"A", "B"}

----------------------------------------------------------------------------
(* Values *)

Str(s) == [t |-> "str", s |-> s, n |-> 0]
StrLit(kind, n) == [t |-> "strlit", s |-> kind, n |-> n]
IntV(n) == [t |-> "int", s |-> "", n |-> n]
FloatV(n) == [t |-> "float", s |-> "", n |-> n]
Ts(n) == [t |-> "ts", s |-> "", n |-> n]
NaN == [t |-> "nan", s |-> "", n |-> 0]
NoneV == [t |-> "none", s |-> "", n |-> 0]

Empty == [t |-> "empty", s |-> "", n |-> 0]
Word(s) == [t |-> "word", s |-> s, n |-> 0]

Range(q) == {q[i] : i \in DOMAIN q}

IndexOf(q, x) == CHOOSE i \in DOMAIN q : q[i] = x /\ \A j \in 1..(i-1) : q[j] # x

----------------------------------------------------------------------------
(* Configuration *)

LEVELS == <<"Very Low", "Low", "Medium", "High", "Very High">>
EMOTIONS == <<"Happy", "Okay", "Sad", "Angry", "Calm", "Excited", "Tired", "Other">>

Field(name, type, args) == [name |-> name, type |-> type, args |-> args]

FOCUS_OPTIONS ==
  << [name |-> "Time Log", fields |->
        << Field("Name", "text", <<>>),
           Field("Time Range", "text", <<>>),
           Field("Energy", "select", LEVELS),
           Field("Focus Level", "select", LEVELS),
           Field("Notes", "text_area", <<>>) >>],
     [name |-> "Expense Log", fields |->
        << Field("Items", "text", <<>>),
           Field("Category", "select",
                 <<"Food", "Transport", "Bills", "Health", "Fun", "Other">>),
           Field("Amount", "number", <<0>>),
           Field("Emotion Before", "select", EMOTIONS),
           Field("Emotion After", "select", EMOTIONS),
           Field("Need vs Want (1-5)", "slider", <<1, 5, 3>>),
           Field("Notes", "text_area", <<>>) >>],
     [name |-> "Stress Log", fields |->
        << Field("Trigger", "text", <<>>),
           Field("Stress (0-10)", "slider", <<0, 10, 5>>),
           Field("Negative Thought", "text_area", <<>>),
           Field("Reframe", "text_area", <<>>),
           Field("Mood After", "select", EMOTIONS) >>],
     [name |-> "Eating Log", fields |->
        << Field("Meal", "text", <<>>),
           Field("Food Items", "text_area", <<>>),
           Field("Hunger (0-10)", "slider", <<0, 10, 5>>),
           Field("Stress (0-10)", "slider", <<0, 10, 5>>),
           Field("Craving (0-10)", "slider", <<0, 10, 5>>),
           Field("Mood Before", "select", EMOTIONS),
           Field("Mood After", "select", EMOTIONS),
           Field("Notes", "text_area", <<>>) >>] >>

FOCUS_NAMES == [i \in DOMAIN FOCUS_OPTIONS |-> FOCUS_OPTIONS[i].name]

\* sorted(list(set(...))): Python's code-point order of the field names
FOCUS_FIELDS ==
  << "Amount", "Category", "Craving (0-10)", "Emotion After", "Emotion Before",
     "Energy", "Focus Level", "Food Items", "Hunger (0-10)", "Items", "Meal",
     "Mood After", "Mood Before", "Name", "Need vs Want (1-5)",
     "Negative Thought", "Notes", "Reframe", "Stress (0-10)", "Time Range",
     "Trigger" >>

GENERAL_COLUMNS == <<"DateTime", "Mood", "Focus">>

ALL_COLUMNS == GENERAL_COLUMNS \o FOCUS_FIELDS

MOOD_CHOICES == EMOTIONS

\* the field specifications of one focus type (empty for an unknown focus)
FieldsOf(focus) ==
  IF \E i \in DOMAIN FOCUS_OPTIONS : FOCUS_OPTIONS[i].name = focus
    THEN FOCUS_OPTIONS[CHOOSE i \in DOMAIN FOCUS_OPTIONS :
                          FOCUS_OPTIONS[i].name = focus].fields
    ELSE <<>>

FieldNames(focus) == {FieldsOf(focus)[i].name : i \in DOMAIN FieldsOf(focus)}

----------------------------------------------------------------------------
(* DataFrames: [columns, index, rows]; a row is a function on the columns *)

DataFrame(cols) == [columns |-> cols, index |-> <<>>, rows |-> <<>>]

ColSet(d) == Range(d.columns)

RangeIndex(n) == [i \in 1..n |-> i - 1]

\* df.empty
IsEmpty(d) == Len(d.rows) = 0 \/ Len(d.columns) = 0

\* the position of the row labelled idx
Loc(d, idx) == CHOOSE p \in DOMAIN d.index : d.index[p] = idx

\* df.at[idx, col]
At(d, idx, col) == d.rows[Loc(d, idx)][col]

----------------------------------------------------------------------------
(* CSV text *)

\* how DataFrame.to_csv prints one value: NaN and "" both print as nothing
CsvCell(v) ==
  CASE v.t = "nan" -> Empty
    [] v.t = "str" -> IF v.s = "" THEN Empty ELSE Word(v.s)
    [] v.t = "strlit" -> [t |-> v.s, s |-> "", n |-> v.n]
    [] v.t \in {"int", "float", "ts"} -> [t |-> v.t, s |-> "", n |-> v.n]

\* df.to_csv(path, index=False): a header line, then one line per row
to_csv(d) ==
  << [i \in DOMAIN d.columns |-> Word(d.columns[i])] >> \o
  [r \in DOMAIN d.rows |->
     [i \in DOMAIN d.columns |-> CsvCell(d.rows[r][d.columns[i]])]]

\* the strings pandas.read_csv reads as missing, besides the empty field
STR_NA_VALUES ==
  {"#N/A", "#N/A N/A", "#NA", "-1.#IND", "-1.#QNAN", "-NaN", "-nan", "1.#IND",
   "1.#QNAN", "<NA>", "N/A", "NA", "NULL", "NaN", "None", "n/a", "nan", "null"}

IsNA(c) == c.t = "empty" \/ (c.t = "word" /\ c.s \in STR_NA_VALUES)

\* read_csv infers one type per column: numeric when every field that is
\* not missing is a number (float as soon as one is missing or a float),
\* otherwise the fields stay strings; a missing field is NaN in both cases
ParseColumn(cells) ==
  LET numeric == \A i \in DOMAIN cells :
                   IsNA(cells[i]) \/ cells[i].t \in {"int", "float"}
      allInt == \A i \in DOMAIN cells : cells[i].t = "int"
  IN [i \in DOMAIN cells |->
        IF IsNA(cells[i]) THEN NaN
        ELSE IF numeric
          THEN IF allInt THEN IntV(cells[i].n)
               ELSE FloatV(IF cells[i].t = "int" THEN 10 * cells[i].n
                           ELSE cells[i].n)
        ELSE IF cells[i].t = "word" THEN Str(cells[i].s)
        ELSE StrLit(cells[i].t, cells[i].n)]

\* pd.read_csv on a file that has a header line
read_csv(lines) ==
  LET cols == [i \in DOMAIN lines[1] |-> lines[1][i].s]
      body == Tail(lines)
      col(j) == ParseColumn([r \in DOMAIN body |-> body[r][j]])
  IN [columns |-> cols,
      index |-> RangeIndex(Len(body)),
      rows |-> [r \in DOMAIN body |->
                  [c \in Range(cols) |-> col(IndexOf(cols, c))[r]]]]

\* pd.to_datetime(x, errors="coerce") on one value of a column read from
\* CSV text: what does not parse as a date becomes NaT
to_datetime(v) ==
  CASE v.t = "ts" -> v
    [] v.t = "strlit" /\ v.s = "ts" -> Ts(v.n)
    [] v.t = "str" -> NaN
    [] v.t = "nan" -> NaN

\* x.strftime("%Y-%m-%d %H:%M"): the minute of a timestamp, NaN for NaT
strftime(v) ==
  IF v.t = "ts" THEN [t |-> "minute", s |-> "", n |-> v.n \div 60] ELSE NaN

----------------------------------------------------------------------------
(* load_data / save_data *)

\* df.rename(columns={old: new})
Rename(d, old, new) ==
  [d EXCEPT !.columns = [i \in DOMAIN d.columns |->
                           IF d.columns[i] = old THEN new ELSE d.columns[i]],
            !.rows = [r \in DOMAIN d.rows |->
                        [c \in (ColSet(d) \ {old}) \cup {new} |->
                           IF c = new THEN d.rows[r][old] ELSE d.rows[r][c]]]]

\* lines 66-71: ALL_COLUMNS without repetitions, order kept
RECURSIVE Dedupe(_)
Dedupe(q) ==
  IF q = <<>> THEN <<>>
  ELSE LET front == Dedupe(SubSeq(q, 1, Len(q) - 1))
       IN IF q[Len(q)] \in Range(front) THEN front
          ELSE Append(front, q[Len(q)])

cols_unique == Dedupe(ALL_COLUMNS)

\* lines 72-75: back-fill the missing columns with "", keep cols_unique only
Canonicalize(d) ==
  [columns |-> cols_unique,
   index |-> d.index,
   rows |-> [r \in DOMAIN d.rows |->
               [c \in Range(cols_unique) |->
                  IF c \in ColSet(d) THEN d.rows[r][c] ELSE Str("")]]]

\* lines 60-64 and 77-78 of load_data on the state f of journal_entries.csv:
\* read, rename a legacy Date column, parse the dates.  The outcome is
\* "notfound" (the except branch), "ok", or the exception that leaves the
\* function: EmptyDataError for a file without a header line, KeyError for
\* a file without a DateTime (or Date) column.
ReadArtifact(f) ==
  IF ~f.exists
    THEN [outcome |-> "notfound", df |-> DataFrame(ALL_COLUMNS)]
  ELSE IF f.lines = <<>>
    THEN [outcome |-> "EmptyDataError", df |-> DataFrame(<<>>)]
  ELSE
    LET raw == read_csv(f.lines)
        renamed == IF "DateTime" \notin ColSet(raw) /\ "Date" \in ColSet(raw)
                     THEN Rename(raw, "Date", "DateTime") ELSE raw
    IN IF "DateTime" \notin ColSet(renamed)
         THEN [outcome |-> "KeyError", df |-> DataFrame(<<>>)]
         ELSE [outcome |-> "ok",
               df |-> [renamed EXCEPT !.rows =
                         [r \in DOMAIN renamed.rows |->
                            [renamed.rows[r] EXCEPT !["DateTime"] =
                               to_datetime(@)]]]]

\* load_data returning the table as read, lines 66-75 left out
load_data_as_read(f) == ReadArtifact(f)

load_data(f) ==
  LET r == ReadArtifact(f)
  IN IF r.outcome = "ok"
       THEN [outcome |-> "ok", df |-> Canonicalize(r.df)]
       ELSE r

\* what the bytes of a write at offset 0 leave in a file that holds old:
\* the new lines, then whatever of old lies beyond them
Overlay(new, old) == new \o SubSeq(old, Len(new) + 1, Len(old))

NoFile == [exists |-> FALSE, lines |-> <<>>]

----------------------------------------------------------------------------
(* build_focus_fields: the widgets of one focus type.  k = 1 is the user    *)
(* leaving a widget at its initial value, k = 2 the user changing it.       *)

\* default not in [None, ""]
NoneOrEmpty(v) == v.t = "none" \/ (v.t = "str" /\ v.s = "")

\* Python truthiness of a widget default
Falsy(v) == NoneOrEmpty(v) \/ (v.t \in {"int", "float"} /\ v.n = 0)

\* str(x), the cast st.text_input applies to its value
PyStr(v) ==
  CASE v.t \in {"str", "strlit"} -> v
    [] v.t = "nan" -> Str("nan")
    [] v.t \in {"int", "float", "ts"} -> StrLit(v.t, v.n)

\* int(x) and float(x) raise ValueError outside these
IntOk(v) == v.t \in {"int", "float"} \/ (v.t = "strlit" /\ v.s = "int")
IntOf(v) == IF v.t = "float" THEN v.n \div 10 ELSE v.n
FloatOk(v) == v.t \in {"int", "float", "nan"}
                \/ (v.t = "strlit" /\ v.s \in {"int", "float"})
FloatOf(v) ==
  CASE v.t = "nan" -> NaN
    [] v.t = "float" \/ (v.t = "strlit" /\ v.s = "float") -> FloatV(v.n)
    [] v.t = "int" \/ (v.t = "strlit" /\ v.s = "int") -> FloatV(10 * v.n)

\* the widget call of lines 90-105 returns instead of raising
WidgetOk(fld, default) ==
  CASE fld.type = "slider" ->
         NoneOrEmpty(default)
           \/ (IntOk(default) /\ fld.args[1] <= IntOf(default)
                              /\ IntOf(default) <= fld.args[2])
    [] fld.type = "number" -> NoneOrEmpty(default) \/ FloatOk(default)
    [] OTHER -> TRUE

\* the value the widget returns
WidgetValue(fld, default, k) ==
  CASE fld.type \in {"text", "text_area"} ->
         IF k = 2 THEN Str("a")
         ELSE IF Falsy(default) THEN Str("") ELSE PyStr(default)
    [] fld.type = "select" ->
         IF k = 2 THEN Str(fld.args[Len(fld.args)])
         ELSE IF ~Falsy(default) /\ default.t = "str"
                   /\ default.s \in Range(fld.args)
                THEN default ELSE Str(fld.args[1])
    [] fld.type = "slider" ->
         IF k = 2 THEN IntV(fld.args[2])
         ELSE IF NoneOrEmpty(default) THEN IntV(fld.args[3])
         ELSE IntV(IntOf(default))
    [] fld.type = "number" ->
         IF k = 2 THEN FloatV(125)
         ELSE IF NoneOrEmpty(default) THEN FloatV(10 * fld.args[1])
         ELSE FloatOf(default)

BuildOk(focus, defaults) ==
  \A i \in DOMAIN FieldsOf(focus) :
    WidgetOk(FieldsOf(focus)[i], defaults[FieldsOf(focus)[i].name])

build_focus_fields(focus, defaults, k) ==
  [f \in FieldNames(focus) |->
     LET fld == FieldsOf(focus)[CHOOSE i \in DOMAIN FieldsOf(focus) :
                                  FieldsOf(focus)[i].name = f]
     IN WidgetValue(fld, defaults[f], k)]

\* default_values={} is falsy: every default is None (line 89)
NoDefaults(focus) == [f \in FieldNames(focus) |-> NoneV]

----------------------------------------------------------------------------
(* add_entry / edit_entry / delete_entry / sort_values *)

\* the elements of q that are not in the set S, order kept
RECURSIVE Without(_, _)
Without(q, S) ==
  IF q = <<>> THEN <<>>
  ELSE IF Head(q) \in S THEN Without(Tail(q), S)
  ELSE <<Head(q)>> \o Without(Tail(q), S)

\* the rows of d over the columns cols, NaN where d has no such column
Reindexed(d, cols) ==
  [r \in DOMAIN d.rows |->
     [c \in Range(cols) |-> IF c \in ColSet(d) THEN d.rows[r][c] ELSE NaN]]

add_entry(d, dt, mood, focus, focus_fields) ==
  LET to_add == [c \in Range(ALL_COLUMNS) |->
                   IF c = "DateTime" THEN dt
                   ELSE IF c = "Mood" THEN Str(mood)
                   ELSE IF c = "Focus" THEN Str(focus)
                   ELSE IF c \in DOMAIN focus_fields THEN focus_fields[c]
                   ELSE Str("")]
      cols == d.columns \o Without(ALL_COLUMNS, ColSet(d))
  IN [columns |-> cols,
      index |-> RangeIndex(Len(d.rows) + 1),
      rows |-> Append(Reindexed(d, cols),
                      [c \in Range(cols) |->
                         IF c \in DOMAIN to_add THEN to_add[c] ELSE NaN])]

\* edit_entry that also blanks the fields of the other focus types
edit_entry_blanking(d, idx, mood, focus, focus_fields) ==
  [columns |-> d.columns,
   index |-> d.index,
   rows |-> [r \in DOMAIN d.rows |->
               IF d.index[r] # idx THEN d.rows[r]
               ELSE [c \in ColSet(d) |->
                       IF c = "Mood" THEN Str(mood)
                       ELSE IF c = "Focus" THEN Str(focus)
                       ELSE IF c \in DOMAIN focus_fields THEN focus_fields[c]
                       ELSE IF c = "DateTime" THEN d.rows[r][c]
                       ELSE Str("")]]]

edit_entry(d, idx, mood, focus, focus_fields) ==
  LET written == <<"Mood", "Focus">> \o
                   [i \in DOMAIN FieldsOf(focus) |-> FieldsOf(focus)[i].name]
      cols == d.columns \o Without(written, ColSet(d))
      old == Reindexed(d, cols)
  IN [columns |-> cols,
      index |-> d.index,
      rows |-> [r \in DOMAIN old |->
                  IF d.index[r] # idx THEN old[r]
                  ELSE [c \in Range(cols) |->
                          IF c = "Mood" THEN Str(mood)
                          ELSE IF c = "Focus" THEN Str(focus)
                          ELSE IF c \in DOMAIN focus_fields THEN focus_fields[c]
                          ELSE old[r][c]]]]

\* delete_entry without reset_index(drop=True)
delete_entry_labels_kept(d, idx) ==
  LET keep == {p \in DOMAIN d.index : d.index[p] # idx}
      pos(i) == CHOOSE p \in keep : Cardinality({q \in keep : q < p}) = i - 1
  IN [columns |-> d.columns,
      index |-> [i \in 1..Cardinality(keep) |-> d.index[pos(i)]],
      rows |-> [i \in 1..Cardinality(keep) |-> d.rows[pos(i)]]]

\* df.drop(idx).reset_index(drop=True)
delete_entry(d, idx) ==
  LET keep == {p \in DOMAIN d.index : d.index[p] # idx}
      pos(i) == CHOOSE p \in keep : Cardinality({q \in keep : q < p}) = i - 1
  IN [columns |-> d.columns,
      index |-> RangeIndex(Cardinality(keep)),
      rows |-> [i \in 1..Cardinality(keep) |-> d.rows[pos(i)]]]

\* a sorts strictly before b in descending DateTime order, NaT last
Precedes(a, b) == a.t = "ts" /\ (b.t # "ts" \/ a.n > b.n)

RECURSIVE InsertRow(_, _)
InsertRow(x, q) ==
  IF q = <<>> THEN <<x>>
  ELSE IF Precedes(x["DateTime"], Head(q)["DateTime"]) THEN <<x>> \o q
  ELSE <<Head(q)>> \o InsertRow(x, Tail(q))

RECURSIVE SortRows(_)
SortRows(q) ==
  IF q = <<>> THEN <<>>
  ELSE InsertRow(q[Len(q)], SortRows(SubSeq(q, 1, Len(q) - 1)))

\* df.sort_values("DateTime", ascending=False).reset_index(drop=True)
sort_values(d) ==
  [columns |-> d.columns, index |-> RangeIndex(Len(d.rows)),
   rows |-> SortRows(d.rows)]

\* == on two strftime results: NaN equals nothing
SameMinute(a, b) == a.t = "minute" /\ a = b

\* df["DateTime"].dt.strftime("%Y-%m-%d %H:%M").tolist()
date_options(d) == [r \in DOMAIN d.rows |-> strftime(d.rows[r]["DateTime"])]

\* df[df["DateTime"].dt.strftime(...) == selected].index[0]
sel_index(d, selected) ==
  d.index[CHOOSE p \in DOMAIN d.rows :
            /\ SameMinute(date_options(d)[p], selected)
            /\ \A q \in 1..(p-1) : ~SameMinute(date_options(d)[q], selected)]

\* line 157: an entry of that minute exists already
already(d, entry_datetime) ==
  /\ ~IsEmpty(d)
  /\ \E r \in DOMAIN d.rows :
       SameMinute(strftime(d.rows[r]["DateTime"]), strftime(entry_datetime))

----------------------------------------------------------------------------
(* State                                                                    *)
(*   file    journal_entries.csv: whether it exists, and its lines          *)
(*   pc      where each session's script run stands: "idle" between runs,   *)
(*           "loaded" after line 137, "save" when a handler has called      *)
(*           save_data, "writing" once to_csv has opened the file           *)
(*   df      the script's variable df                                       *)
(*   op      the handler of the run: "add", "edit", "delete"; at "idle",    *)
(*           how the last run ended ("rejected", "interrupted" or "none")   *)
(*   sel     the value of the "pick_date" selectbox the handler used        *)
(*   out     the outcome of the run's load_data                             *)
(*   before  history: the file as it was when the run's to_csv opened it    *)

NoFrame == DataFrame(ALL_COLUMNS)

\* the timestamps a user enters
EntryTimes == {Ts(60 * m) : m \in 0..(MaxMinutes - 1)}

\* What the users do, as the sets the inputs of a run are drawn from: the
\* timestamps entered, and for "Save Entry" and for "Save changes" the
\* focus types picked and whether the widgets are left alone (1) or
\* changed (2).
OneUser ==
  [times |-> EntryTimes,
   addFocus |-> {"Time Log", "Expense Log"}, addK |-> {1, 2},
   editFocus |-> {"Time Log", "Expense Log"}, editK |-> {2}]

TwoUsers ==
  [times |-> EntryTimes,
   addFocus |-> {"Time Log"}, addK |-> {2},
   editFocus |-> {"Time Log"}, editK |-> {2}]

\* artifacts written by earlier versions of the script
LegacyDate ==
  [exists |-> TRUE,
   lines |-> << <<Word("Date"), Word("Mood"), Word("Focus"), Word("Notes")>>,
                <<Ts(0), Word("Happy"), Word("Time Log"), Word("a")>> >>]

LegacyNoDate ==
  [exists |-> TRUE,
   lines |-> << <<Word("Mood"), Word("Focus")>>,
                <<Word("Happy"), Word("Time Log")>> >>]

LegacyExtra ==
  [exists |-> TRUE,
   lines |-> << <<Word("DateTime"), Word("Mood"), Word("Tags"), Word("Focus"),
                  Word("Stress (0-10)")>>,
                <<Ts(30), Word("Sad"), Word("x"), Word("Stress Log"),
                  IntV(7)>>,
                <<Word("someday"), Word("Calm"), Empty, Word("Stress Log"),
                  Empty>> >>]

Artifacts == {NoFile, LegacyDate, LegacyNoDate, LegacyExtra}

InitWith(f) ==
  /\ file = f
  /\ pc = [s \in Sessions |-> "idle"]
  /\ df = [s \in Sessions |-> NoFrame]
  /\ op = [s \in Sessions |-> "none"]
  /\ sel = [s \in Sessions |-> NaN]
  /\ out = [s \in Sessions |-> "none"]
  /\ before = [s \in Sessions |-> NoFile]

Init == \E f \in Artifacts : InitWith(f)

----------------------------------------------------------------------------
(* Steps of one script run *)

\* line 137: df = load_data().  An exception ends the run.
LoadData(s) ==
  /\ pc[s] = "idle"
  /\ LET r == load_data(file)
     IN /\ out' = [out EXCEPT ![s] = r.outcome]
        /\ IF r.outcome \in {"ok", "notfound"}
             THEN /\ pc' = [pc EXCEPT ![s] = "loaded"]
                  /\ df' = [df EXCEPT ![s] = r.df]
             ELSE UNCHANGED <<pc, df>>
  /\ op' = [op EXCEPT ![s] = "none"]
  /\ UNCHANGED <<file, sel, before>>

\* the end of a run that saves nothing
EndRun(s, how) ==
  /\ pc' = [pc EXCEPT ![s] = "idle"]
  /\ df' = [df EXCEPT ![s] = NoFrame]
  /\ op' = [op EXCEPT ![s] = how]
  /\ sel' = [sel EXCEPT ![s] = NaN]
  /\ out' = [out EXCEPT ![s] = "none"]
  /\ before' = [before EXCEPT ![s] = NoFile]

\* a run in which no button was clicked
View(s) ==
  /\ pc[s] = "loaded"
  /\ EndRun(s, "none")
  /\ UNCHANGED file

\* lines 154-164: the "Save Entry" button
SaveEntry(s, dt, k, focus) ==
  /\ pc[s] = "loaded"
  /\ Len(df[s].rows) < MaxRows
  /\ IF already(df[s], dt)
       THEN EndRun(s, "rejected")
       ELSE /\ df' = [df EXCEPT ![s] =
                        add_entry(df[s], dt, MOOD_CHOICES[k], focus,
                                  build_focus_fields(focus, NoDefaults(focus), k))]
            /\ pc' = [pc EXCEPT ![s] = "save"]
            /\ op' = [op EXCEPT ![s] = "add"]
            /\ UNCHANGED <<sel, out, before>>
  /\ UNCHANGED file

\* lines 172-192 return for the entry selected: the Mood and Focus stored
\* are known choices and the edit widgets of edit_focus can be built
Renders(d, idx, edit_focus) ==
  /\ At(d, idx, "Mood").t = "str"
  /\ At(d, idx, "Mood").s \in Range(MOOD_CHOICES)
  /\ At(d, idx, "Focus").t = "str"
  /\ At(d, idx, "Focus").s \in Range(FOCUS_NAMES)
  /\ BuildOk(edit_focus, [f \in FieldNames(edit_focus) |-> At(d, idx, f)])

\* lines 193-197: the "Save changes" button
SaveChanges(s, selected, k, edit_focus) ==
  /\ pc[s] = "loaded"
  /\ ~IsEmpty(df[s])
  /\ LET d == sort_values(df[s])
     IN /\ \E p \in DOMAIN d.rows : SameMinute(date_options(d)[p], selected)
        /\ LET idx == sel_index(d, selected)
               defaults == [f \in FieldNames(edit_focus) |-> At(d, idx, f)]
               edit_mood == IF k = 2 THEN MOOD_CHOICES[2]
                            ELSE At(d, idx, "Mood").s
           IN /\ Renders(d, idx, edit_focus)
              /\ df' = [df EXCEPT ![s] =
                          edit_entry(d, idx, edit_mood, edit_focus,
                                     build_focus_fields(edit_focus, defaults, k))]
  /\ pc' = [pc EXCEPT ![s] = "save"]
  /\ op' = [op EXCEPT ![s] = "edit"]
  /\ sel' = [sel EXCEPT ![s] = selected]
  /\ UNCHANGED <<file, out, before>>

\* lines 198-202: the "Delete this entry" button
DeleteEntry(s, selected) ==
  /\ pc[s] = "loaded"
  /\ ~IsEmpty(df[s])
  /\ LET d == sort_values(df[s])
     IN /\ \E p \in DOMAIN d.rows : SameMinute(date_options(d)[p], selected)
        /\ LET idx == sel_index(d, selected)
           IN /\ \E ef \in Range(FOCUS_NAMES) : Renders(d, idx, ef)
              /\ df' = [df EXCEPT ![s] = delete_entry(d, idx)]
  /\ pc' = [pc EXCEPT ![s] = "save"]
  /\ op' = [op EXCEPT ![s] = "delete"]
  /\ sel' = [sel EXCEPT ![s] = selected]
  /\ UNCHANGED <<file, out, before>>

\* save_data, first half: to_csv opens the file for writing, which creates
\* or truncates it
SaveOpen(s) ==
  /\ pc[s] = "save"
  /\ before' = [before EXCEPT ![s] = file]
  /\ file' = [exists |-> TRUE, lines |-> <<>>]
  /\ pc' = [pc EXCEPT ![s] = "writing"]
  /\ UNCHANGED <<df, op, sel, out>>

\* save_data, second half: the buffered text is written at offset 0 and the
\* file is closed; st.rerun() then ends the run
SaveWrite(s) ==
  /\ pc[s] = "writing"
  /\ file' = [exists |-> TRUE, lines |-> Overlay(to_csv(df[s]), file.lines)]
  /\ EndRun(s, "none")

\* the process stops between the two halves
Interrupt(s) ==
  /\ pc[s] = "writing"
  /\ EndRun(s, "interrupted")
  /\ UNCHANGED file

Run(s, in) ==
  \/ LoadData(s)
  \/ View(s)
  \/ \E dt \in in.times, k \in in.addK, focus \in in.addFocus :
       SaveEntry(s, dt, k, focus)
  \/ \E dt \in in.times, k \in in.editK, focus \in in.editFocus :
       SaveChanges(s, strftime(dt), k, focus)
  \/ \E dt \in in.times : DeleteEntry(s, strftime(dt))
  \/ SaveOpen(s)
  \/ SaveWrite(s)
  \/ Interrupt(s)

\* one session, starting from any of the artifacts
Next == Run("A", OneUser)

Spec == Init /\ [][Next]_vars

\* two sessions on the same file, starting without one
InitConc == InitWith(NoFile)

NextConc == \E s \in Sessions : Run(s, TwoUsers)

SpecConc == InitConc /\ [][NextConc]_vars

----------------------------------------------------------------------------
(* Properties *)

\* the steps of session s, recognised in a pair of states
Loads(s) == pc[s] = "idle" /\ out'[s] # "none"
Adds(s) == pc[s] = "loaded" /\ pc'[s] = "save" /\ op'[s] = "add"
Rejects(s) == pc[s] = "loaded" /\ pc'[s] = "idle" /\ op'[s] = "rejected"
Edits(s) == pc[s] = "loaded" /\ pc'[s] = "save" /\ op'[s] = "edit"
Deletes(s) == pc[s] = "loaded" /\ pc'[s] = "save" /\ op'[s] = "delete"
Opens(s) == pc[s] = "save" /\ pc'[s] = "writing"
Completes(s) == pc[s] = "writing" /\ pc'[s] = "idle" /\ op'[s] = "none"
Interrupted(s) == pc[s] = "writing" /\ pc'[s] = "idle" /\ op'[s] = "interrupted"

SameTable(a, b) == a.columns = b.columns /\ a.rows = b.rows

FileRows(f) == {f.lines[i] : i \in 2..Len(f.lines)}

RemoveAt(q, p) == SubSeq(q, 1, p - 1) \o SubSeq(q, p + 1, Len(q))

HasCanonicalColumns(d) ==
  /\ d.columns = ALL_COLUMNS
  /\ \A r \in DOMAIN d.rows : DOMAIN d.rows[r] = Range(ALL_COLUMNS)

MinuteUnique(d) ==
  \A p, q \in DOMAIN d.rows :
    p # q => ~SameMinute(date_options(d)[p], date_options(d)[q])

\* C1: a load right after a completed save of T yields T, field for field
\* and in the same order, and the file holds nothing but T
C1_RoundTrip ==
  [][\A s \in Sessions :
       Completes(s) =>
         /\ file'.lines = to_csv(df[s])
         /\ load_data(file').outcome = "ok"
         /\ SameTable(load_data(file').df, df[s])]_vars

\* C2: no session writes the file while another session is between its load
\* and the end of its save, and the save of an added entry drops no record
\* that is in the artifact when the save starts
C2_NoLostUpdate ==
  [][\A s \in Sessions :
       /\ Opens(s) \/ Completes(s) =>
            \A t \in Sessions \ {s} : pc[t] \notin {"save", "writing"}
       /\ Opens(s) /\ op[s] = "add" =>
            FileRows(file) \subseteq FileRows([exists |-> TRUE,
                                               lines |-> to_csv(df[s])])]_vars

\* C3: when the last of the saves in progress completes, the file holds
\* exactly the table of that save
C3_SaveSerialized ==
  [][\A s \in Sessions :
       Completes(s) /\ (\A t \in Sessions \ {s} : pc[t] # "writing") =>
         file'.lines = to_csv(df[s])]_vars

\* C4: an interrupted save leaves the artifact as it was before the save
C4_CrashSafe ==
  [][\A s \in Sessions : Interrupted(s) => file' = before[s]]_vars

\* C5: every table a run holds after load_data, and every table handed to
\* save_data, has exactly the columns ALL_COLUMNS, in that order
C5_CanonicalColumns ==
  \A s \in Sessions :
    /\ HasCanonicalColumns(df[s])
    /\ pc[s] \in {"save", "writing"} =>
         to_csv(df[s])[1] = [i \in DOMAIN ALL_COLUMNS |-> Word(ALL_COLUMNS[i])]

\* a run is writing a table that it loaded from an artifact of another shape
C5_Witness ==
  \E s \in Sessions :
    /\ pc[s] = "writing"
    /\ before[s] \in {LegacyDate, LegacyExtra}
    /\ Len(df[s].rows) >= 2

\* C6: loading an artifact whose columns are a subset of ALL_COLUMNS yields
\* a table with all of ALL_COLUMNS in order, the missing columns "" in every
\* row, the others as read
C6_BackFill ==
  [][\A s \in Sessions :
       ( /\ Loads(s)
         /\ file.exists /\ file.lines # <<>>
         /\ ColSet(read_csv(file.lines)) \subseteq Range(ALL_COLUMNS) ) =>
         /\ out'[s] = "ok"
         /\ HasCanonicalColumns(df'[s])
         /\ LET raw == read_csv(file.lines)
            IN \A r \in DOMAIN df'[s].rows, c \in Range(ALL_COLUMNS) :
                 /\ c \notin ColSet(raw) => df'[s].rows[r][c] = Str("")
                 /\ c \in ColSet(raw) \ {"DateTime"} =>
                      df'[s].rows[r][c] = raw.rows[r][c]]_vars

\* load_data returned a table without rows
ReturnsEmpty(s) ==
  /\ out'[s] \in {"ok", "notfound"}
  /\ HasCanonicalColumns(df'[s])
  /\ Len(df'[s].rows) = 0

\* the artifact reads back as valid content: it has a header line that names
\* a DateTime or a Date column, and the DateTime of every record is a date
ValidContent(f) ==
  /\ f.lines # <<>>
  /\ ReadArtifact(f).outcome = "ok"
  /\ \A r \in DOMAIN ReadArtifact(f).df.rows :
       ReadArtifact(f).df.rows[r]["DateTime"].t = "ts"

\* C7: load_data returns an empty table exactly when there is no artifact,
\* and then leaves the file alone; on an artifact that does not read back as
\* valid content it fails, with an outcome other than not-found, and hands
\* no table to the run
C7_UnreadableNeverEmpty ==
  [][\A s \in Sessions :
       Loads(s) =>
         /\ ReturnsEmpty(s) <=> ~file.exists
         /\ file' = file
         /\ file.exists /\ ~ValidContent(file) =>
              /\ out'[s] \in {"EmptyDataError", "KeyError"}
              /\ pc'[s] = "idle"
              /\ df'[s] = df[s]]_vars

\* C8: the persisted table never holds two records of the same minute; a
\* "Save Entry" is accepted only if no record of the artifact has its
\* minute, and a rejected one changes neither table nor artifact
C8_MinuteUnique ==
  [][\A s \in Sessions :
       /\ load_data(file').outcome = "ok" => MinuteUnique(load_data(file').df)
       /\ Adds(s) =>
            LET new == df'[s].rows[Len(df'[s].rows)]["DateTime"]
            IN load_data(file).outcome = "ok" =>
                 ~already(load_data(file).df, new)
       /\ Rejects(s) => file' = file]_vars

\* the row edited or deleted: the first of the sorted table whose minute is
\* the one selected
Selected(d, selected) ==
  CHOOSE p \in DOMAIN d.rows :
    /\ SameMinute(date_options(d)[p], selected)
    /\ \A q \in 1..(p - 1) : ~SameMinute(date_options(d)[q], selected)

\* the frame of "Save changes", kept being the fields of the edited record
\* that must stay as they are
EditFrame(s, kept(_, _)) ==
  Edits(s) =>
    LET d == sort_values(df[s])
        e == df'[s]
        p == Selected(d, sel'[s])
    IN /\ e.columns = d.columns /\ e.index = d.index
       /\ Len(e.rows) = Len(d.rows)
       /\ \A r \in DOMAIN d.rows :
            /\ e.rows[r]["DateTime"] = d.rows[r]["DateTime"]
            /\ r # p => e.rows[r] = d.rows[r]
       /\ \A c \in Range(ALL_COLUMNS) \
                    ({"Mood", "Focus"} \cup FieldNames(e.rows[p]["Focus"].s)) :
            e.rows[p][c] = d.rows[p][c]
       /\ \A c \in kept(d.rows[p]["Focus"].s, e.rows[p]["Focus"].s) :
            e.rows[p][c] = d.rows[p][c]

PreviousFields(old, new) == IF old = new THEN {} ELSE FieldNames(old)

PreviousOnlyFields(old, new) == FieldNames(old) \ FieldNames(new)

\* C9 (as claimed): an edit changes nothing but Mood, Focus and the fields
\* of the new focus type, and when the focus type changes every field of the
\* previous focus type keeps its value
C9_PreviousFieldsKept ==
  [][\A s \in Sessions : EditFrame(s, PreviousFields)]_vars

\* C9 (amended): ... and the fields of the previous focus type that the new
\* focus type does not have keep their values
C9_EditFrame ==
  [][\A s \in Sessions : EditFrame(s, PreviousOnlyFields)]_vars

\* an Expense Log entry has been edited into a Time Log entry and still
\* carries its amount
C9_Witness ==
  \E s \in Sessions :
    /\ pc[s] = "save" /\ op[s] = "edit"
    /\ \E r \in DOMAIN df[s].rows :
         /\ SameMinute(strftime(df[s].rows[r]["DateTime"]), sel[s])
         /\ df[s].rows[r]["Focus"] = Str("Time Log")
         /\ df[s].rows[r]["Amount"].t = "float"

=============================================================================
